---- MODULE Spec2Model ----
(***************************************************************************)
(* A model of the two scripts of the conversation-extractor plugin:        *)
(*   scripts/update-extracts.py  (the reconciler, specification Spec)      *)
(*   scripts/rename-extracts.py  (the renamer)                             *)
(* Text is a sequence of tokens.  A token is a record [k, v]: k is the     *)
(* kind of text and v its payload, a sequence of one-character strings.    *)
(***************************************************************************)
EXTENDS Integers, Sequences, FiniteSets, TLC

VARIABLES
    \* ---- update-extracts.py ----
    backup_dir,     \* the archive directory: file name -> content
    existing,       \* update_extracts' index: session id -> (path, user_notes)
    temp_dir,       \* the scratch directory the collaborator wrote: name -> content
    new_files,      \* the fresh files the loop has not examined yet
    stats,          \* the counters of update_extracts
    result,         \* what update_extracts returned (None while it runs)
    returncode,     \* the collaborator's exit code (-1 before it ran)
    pc,             \* the position of update_extracts
    run,            \* which run of the tool this is
    before,         \* history: backup_dir when the run started
    written,        \* history: the archive names written in this run
    last,           \* history: the last write of the run (kind, name, content)
    \* ---- rename-extracts.py, sanitize_description alone ----
    desc,           \* the argument of sanitize_description
    slug,           \* what it returned (Pending before the call)
    \* ---- rename-extracts.py ----
    directory,      \* the directory: file name -> content
    files,          \* main's sorted list of the files
    idx,            \* the place in it of the file main processes next
    results,        \* main's list of the records process_file returned
    rpc,            \* the position of main
    dry_run,        \* whether --dry-run was given
    rrun,           \* which run of the renamer this is
    rbefore,        \* history: directory when the run started
    pending,        \* the record of the process_file that is about to unlink
    call            \* history: the last process_file that got past its skips

uvars == << backup_dir, existing, temp_dir, new_files, stats, result,
            returncode, pc, run, before, written, last >>

svars == << desc, slug >>

rvars == << directory, files, idx, results, rpc, dry_run, rrun, rbefore, pending, call >>

vars == << uvars, svars, rvars >>

\* What each script leaves alone: the state of the others.
notU == << svars, rvars >>
notS == << uvars, rvars >>
notR == << uvars, svars >>

(***************************************************************************)
(* Text                                                                    *)
(***************************************************************************)
Tok(k, v) == [k |-> k, v |-> v]

\* USER_NOTES_START, USER_NOTES_END: neither marker overlaps the other, so each
\* is one token.
USER_NOTES_START == Tok("notes_start", <<>>)
USER_NOTES_END == Tok("notes_end", <<>>)

\* One whitespace character (a line break).
NL == Tok("ws", <<>>)
\* A header line "Session ID: <id>", id a run of [a-f0-9-].
SidLine(id) == Tok("sid", id)
\* Other text, none of it whitespace, a marker or a header.
Txt(c) == Tok("txt", <<c>>)
\* Bytes that are not UTF-8: read_text raises on a file holding them.
Bin == Tok("bin", <<>>)

\* Python's None, and the empty string: every use in the scripts is a test of
\* truthiness, which cannot tell them apart.
None == <<>>

\* str.find for one token: the first index, 0 when absent.
Find(s, t) ==
    IF \E i \in 1..Len(s) : s[i] = t
    THEN CHOOSE i \in 1..Len(s) : s[i] = t /\ \A j \in 1..(i - 1) : s[j] # t
    ELSE 0

\* Whether p occurs in s at index i.
OccursAt(s, p, i) ==
    /\ i >= 1
    /\ i + Len(p) - 1 <= Len(s)
    /\ \A j \in 1..Len(p) : s[i + j - 1] = p[j]

\* Python's `p in s`.
Contains(s, p) == \E i \in 1..(Len(s) - Len(p) + 1) : OccursAt(s, p, i)

\* str.rstrip(): trailing whitespace dropped.
RECURSIVE RStrip(_)
RStrip(s) ==
    IF s # <<>> /\ s[Len(s)] = NL THEN RStrip(SubSeq(s, 1, Len(s) - 1)) ELSE s

\* str.replace(p, ""): every non-overlapping occurrence of p removed, left to right.
RECURSIVE Remove(_, _)
Remove(s, p) ==
    IF s = <<>> \/ p = <<>> THEN s
    ELSE IF OccursAt(s, p, 1) THEN Remove(SubSeq(s, Len(p) + 1, Len(s)), p)
    ELSE << s[1] >> \o Remove(Tail(s), p)

(***************************************************************************)
(* Characters                                                              *)
(***************************************************************************)
Lowers == << "a", "b", "c", "d", "e", "f", "g", "h", "i", "j", "k", "l", "m",
             "n", "o", "p", "q", "r", "s", "t", "u", "v", "w", "x", "y", "z" >>
Uppers == << "A", "B", "C", "D", "E", "F", "G", "H", "I", "J", "K", "L", "M",
             "N", "O", "P", "Q", "R", "S", "T", "U", "V", "W", "X", "Y", "Z" >>
Digits == << "0", "1", "2", "3", "4", "5", "6", "7", "8", "9" >>

Range(f) == { f[i] : i \in DOMAIN f }
IsLower(c) == c \in Range(Lowers)
IsUpper(c) == c \in Range(Uppers)
IsDigit(c) == c \in Range(Digits)

IndexIn(f, c) == CHOOSE i \in DOMAIN f : f[i] = c

\* str.lower() and str.upper() for one character.
ToLower(c) == IF IsUpper(c) THEN Lowers[IndexIn(Uppers, c)] ELSE c
ToUpper(c) == IF IsLower(c) THEN Uppers[IndexIn(Lowers, c)] ELSE c

\* str.lower()
Lower(s) == [i \in 1..Len(s) |-> ToLower(s[i])]

\* s[:n]
Take(s, n) == SubSeq(s, 1, IF n < Len(s) THEN n ELSE Len(s))

\* s[n:]
Drop(s, n) == SubSeq(s, n + 1, Len(s))

(***************************************************************************)
(* rename-extracts.py: sanitize_description                                *)
(***************************************************************************)
\* re.sub(r'-+', '-', desc)
RECURSIVE CollapseHyphens(_)
CollapseHyphens(s) ==
    IF Len(s) < 2 THEN s
    ELSE IF s[1] = "-" /\ s[2] = "-" THEN CollapseHyphens(Tail(s))
    ELSE << s[1] >> \o CollapseHyphens(Tail(s))

\* desc.strip('-')
RECURSIVE StripHyphens(_)
StripHyphens(s) ==
    IF s = <<>> THEN s
    ELSE IF s[1] = "-" THEN StripHyphens(Tail(s))
    ELSE IF s[Len(s)] = "-" THEN StripHyphens(SubSeq(s, 1, Len(s) - 1))
    ELSE s

\* The character class [a-z0-9-].
IsSlugChar(c) == IsLower(c) \/ IsDigit(c) \/ c = "-"

MaxDescription == 50

Conversation == << "c", "o", "n", "v", "e", "r", "s", "a", "t", "i", "o", "n" >>

sanitize_description(d) ==
    LET lowered == Lower(d)
        replaced == [i \in 1..Len(d) |-> IF IsSlugChar(lowered[i]) THEN lowered[i] ELSE "-"]
        collapsed == CollapseHyphens(replaced)
        stripped == StripHyphens(collapsed)
    IN IF stripped # <<>> THEN Take(stripped, MaxDescription) ELSE Conversation

(***************************************************************************)
(* update-extracts.py: the pure functions                                  *)
(***************************************************************************)
\* session_id.split('-')[0] if '-' in session_id else session_id
FirstSegment(session_id) ==
    LET i == Find(session_id, "-")
    IN IF i = 0 THEN session_id ELSE SubSeq(session_id, 1, i - 1)

\* re.search(r'Session ID:\s*([a-f0-9-]+)'): the first header line, truncated.
extract_session_id_from_content(content) ==
    IF \E i \in 1..Len(content) : content[i].k = "sid"
    THEN LET i == CHOOSE i \in 1..Len(content) :
                      /\ content[i].k = "sid"
                      /\ \A j \in 1..(i - 1) : content[j].k # "sid"
         IN FirstSegment(content[i].v)
    ELSE None

\* A file name is [pre, dated, hex]: pre the fixed text it starts with, dated
\* whether a YYYY-MM-DD- follows, hex the run of [a-f0-9] after that.
FileName(pre, dated, hex) == [pre |-> pre, dated |-> dated, day |-> 1, hex |-> hex]

MinHexDated == 8
MinHexAgent == 2

extract_session_id_from_filename(filename) ==
    IF filename.pre = "claude-conversation-" /\ filename.dated
           /\ Len(filename.hex) >= MinHexDated
    THEN filename.hex
    ELSE IF filename.pre = "agent-" /\ Len(filename.hex) >= MinHexAgent
    THEN filename.hex
    ELSE None

extract_user_notes(content) ==
    LET start_idx == Find(content, USER_NOTES_START)
        end_idx == Find(content, USER_NOTES_END)
    IN IF start_idx # 0 /\ end_idx # 0 /\ end_idx > start_idx
       THEN SubSeq(content, start_idx, end_idx)
       ELSE None

merge_with_user_notes(new_content, user_notes) ==
    IF user_notes = None THEN new_content
    ELSE RStrip(new_content) \o << NL, NL >> \o user_notes \o << NL >>

\* f.read_text(encoding="utf-8") raises on bytes that do not decode.
Readable(content) == \A i \in 1..Len(content) : content[i] # Bin

\* Lines 97-99 and 153-155: the session id from the content, else from the name.
SessionIdOf(name, content) ==
    LET session_id == extract_session_id_from_content(content)
    IN IF session_id = None THEN extract_session_id_from_filename(name) ELSE session_id

\* The loop body of get_existing_files for one file.
IndexOne(acc, dir, f) ==
    IF ~Readable(dir[f]) THEN acc
    ELSE LET session_id == SessionIdOf(f, dir[f])
         IN IF session_id = None THEN acc
            ELSE (session_id :> [path |-> f, user_notes |-> extract_user_notes(dir[f])])
                 @@ acc

\* get_existing_files over the files in the order glob yields them.
RECURSIVE IndexAll(_, _, _, _)
IndexAll(acc, dir, order, i) ==
    IF i > Len(order) THEN acc
    ELSE IndexAll(IndexOne(acc, dir, order[i]), dir, order, i + 1)

\* The orders glob may yield the names of S in.
Orders(S) ==
    { o \in [1..Cardinality(S) -> S] : \A i, j \in 1..Cardinality(S) : o[i] = o[j] => i = j }

EmptyIndex == [x \in {} |-> None]

get_existing_files(dir, order) == IndexAll(EmptyIndex, dir, order, 1)

\* A run_extraction that takes every exit code for success.
run_extraction_unchecked(rc) == TRUE

\* run_extraction's verdict on the collaborator's exit code.
run_extraction(rc) == rc = 0

ZeroStats ==
    [updated |-> 0, new |-> 0, unchanged |-> 0, skipped |-> 0, notes_preserved |-> 0]

ErrorResult == [error |-> "Extraction failed"]

NoWrite == [kind |-> "none", name |-> FileName("", FALSE, <<>>), content |-> <<>>]

\* Lines 171-175: whether the fresh content differs from the entry's.
Changed(new_content, old_content, user_notes) ==
    LET old_without_notes ==
            IF user_notes # None /\ Contains(old_content, user_notes)
            THEN RStrip(Remove(old_content, user_notes))
            ELSE old_content
    IN RStrip(new_content) # RStrip(old_without_notes)

(***************************************************************************)
(* update-extracts.py: the archives and collaborator outputs explored      *)
(***************************************************************************)
SegA == << "a", "b", "c", "d", "0", "1", "2", "3" >>
SegB == << "e", "f", "4", "5", "6", "7", "8", "9" >>
\* Two ids with the same leading segment, and one without a hyphen.
IdA1 == SegA \o << "-", "1" >>
IdA2 == SegA \o << "-", "2" >>
IdB == SegB

NotesName == FileName("notes-", FALSE, <<>>)
DatedName(seg) == FileName("claude-conversation-", TRUE, seg)
\* The name the collaborator gives a session of the next day.
LaterName(seg) == [DatedName(seg) EXCEPT !.day = 2]
UndatedName == FileName("claude-conversation-", FALSE, <<>>)

Headers == { <<>>, << SidLine(IdA1), NL >>, << SidLine(IdA2), NL >>, << SidLine(IdB), NL >> }

NotesBlock == << USER_NOTES_START, Txt("n"), USER_NOTES_END >>

\* What follows the transcript in an archive file: nothing; the owner's notes
\* as merge_with_user_notes leaves them; the notes after a transcript that
\* quotes the end marker; bytes that do not decode.
ArchiveTails ==
    { <<>>,
      << NL, NL >> \o NotesBlock \o << NL >>,
      << NL, USER_NOTES_END, NL >> \o NotesBlock \o << NL >> }

ArchiveContents ==
    { h \o << Txt("x") >> \o t : h \in Headers, t \in ArchiveTails } \cup { << Bin >> }

ArchiveNames == { NotesName, DatedName(SegB) }

\* Every archive over ArchiveNames.
Archives ==
    UNION { [S -> ArchiveContents] : S \in SUBSET ArchiveNames }

\* A fresh transcript: the text under the header of the session.
Fresh(id, text) == << SidLine(id), NL, Txt(text), NL >>

\* What the collaborator may write under each name the glob
\* claude-conversation-*.md finds: it names a file after the leading segment
\* of the session's id.
FreshContents(name) ==
    CASE name = DatedName(SegA) -> { Fresh(IdA1, "x"), Fresh(IdA1, "y") }
      [] name = LaterName(SegA) -> { Fresh(IdA2, "x") }
      [] name = DatedName(SegB) -> { Fresh(IdB, "x"), Fresh(IdB, "y"), << Txt("x"), NL >> }
      [] name = UndatedName -> { << Txt("x"), NL >> }

FreshNames == { DatedName(SegA), LaterName(SegA), DatedName(SegB), UndatedName }

\* What the collaborator may leave in the scratch directory.
Outputs ==
    { [n \in S |-> CASE n = DatedName(SegA) -> a [] n = LaterName(SegA) -> l
                      [] n = DatedName(SegB) -> b [] n = UndatedName -> u] :
        a \in FreshContents(DatedName(SegA)), l \in FreshContents(LaterName(SegA)),
        b \in FreshContents(DatedName(SegB)), u \in FreshContents(UndatedName),
        S \in SUBSET FreshNames }

MaxRuns == 2

(***************************************************************************)
(* update-extracts.py: update_extracts                                     *)
(***************************************************************************)
\* sanitize_description is not running.
SIdle == desc = None /\ slug = None

\* update_extracts is not running.
UIdle ==
    /\ backup_dir = [x \in {} |-> <<>>]
    /\ existing = EmptyIndex
    /\ temp_dir = [x \in {} |-> <<>>]
    /\ new_files = {}
    /\ stats = None
    /\ result = None
    /\ returncode = -1
    /\ pc = "idle"
    /\ run = 0
    /\ before = backup_dir
    /\ written = {}
    /\ last = NoWrite

\* No call of process_file has got past its skips.
NoCall == [ filepath |-> <<>>, content |-> <<>>, names |-> {}, result |-> <<>>,
            frontmatter |-> <<>>, wrote |-> FALSE ]

NoPending == <<>>

\* The renamer is not running.
RIdle ==
    /\ directory = [x \in {} |-> <<>>]
    /\ files = <<>>
    /\ idx = 0
    /\ results = <<>>
    /\ rpc = "idle"
    /\ dry_run = FALSE
    /\ rrun = 0
    /\ rbefore = directory
    /\ pending = NoPending
    /\ call = NoCall

UInit ==
    /\ SIdle
    /\ RIdle
    /\ backup_dir \in Archives
    /\ existing = EmptyIndex
    /\ temp_dir = [x \in {} |-> <<>>]
    /\ new_files = {}
    /\ stats = None
    /\ result = None
    /\ returncode = -1
    /\ pc = "index"
    /\ run = 1
    /\ before = backup_dir
    /\ written = {}
    /\ last = NoWrite

\* Line 132: existing = get_existing_files(backup_dir)
GetExisting ==
    /\ pc = "index"
    /\ \E order \in Orders(DOMAIN backup_dir) :
           existing' = get_existing_files(backup_dir, order)
    /\ pc' = "extract"
    /\ UNCHANGED << backup_dir, temp_dir, new_files, stats, result, returncode,
                    run, before, written, last >>
    /\ UNCHANGED notU

\* Lines 140-147: run_extraction; on failure return the error, else list the
\* fresh files and zero the counters.  A later run of the tool is given the
\* same output as the first.
RunExtraction ==
    /\ pc = "extract"
    /\ \E rc \in {0, 1} :
        /\ returncode' = rc
        /\ IF run_extraction(rc)
           THEN /\ pc' = "loop"
                /\ \E d \in Outputs :
                      /\ run > 1 => d = temp_dir
                      /\ temp_dir' = d
                      /\ new_files' = DOMAIN d
                /\ stats' = ZeroStats
                /\ UNCHANGED result
           ELSE /\ pc' = "failed"
                /\ result' = ErrorResult
                /\ UNCHANGED << temp_dir, new_files, stats >>
    /\ UNCHANGED << backup_dir, existing, run, before, written, last >>
    /\ UNCHANGED notU

Bump(s, key) == [s EXCEPT ![key] = @ + 1]

\* Lines 149-190: one iteration of the loop, for the fresh file glob yields next.
ProcessNewFile ==
    /\ pc = "loop"
    /\ \E new_file \in new_files :
        LET new_content == temp_dir[new_file]
            session_id == SessionIdOf(new_file, new_content)
        IN /\ new_files' = new_files \ { new_file }
           /\ IF session_id = None
              THEN /\ stats' = Bump(stats, "skipped")
                   /\ UNCHANGED << backup_dir, written, last >>
              ELSE IF session_id \in DOMAIN existing
              THEN LET existing_file == existing[session_id].path
                       user_notes == existing[session_id].user_notes
                       old_content == backup_dir[existing_file]
                       final_content == merge_with_user_notes(new_content, user_notes)
                   IN IF Changed(new_content, old_content, user_notes)
                      THEN /\ backup_dir' = [backup_dir EXCEPT ![existing_file] = final_content]
                           /\ stats' = IF user_notes # None
                                       THEN Bump(Bump(stats, "updated"), "notes_preserved")
                                       ELSE Bump(stats, "updated")
                           /\ written' = written \cup { existing_file }
                           /\ last' = [kind |-> "updated", name |-> existing_file,
                                       content |-> final_content]
                      ELSE /\ stats' = Bump(stats, "unchanged")
                           /\ UNCHANGED << backup_dir, written, last >>
              ELSE \* shutil.copy2(new_file, backup_dir / new_file.name)
                   /\ backup_dir' = (new_file :> new_content) @@ backup_dir
                   /\ stats' = Bump(stats, "new")
                   /\ written' = written \cup { new_file }
                   /\ last' = [kind |-> "new", name |-> new_file, content |-> new_content]
    /\ UNCHANGED << existing, temp_dir, result, returncode, pc, run, before >>
    /\ UNCHANGED notU

\* Line 192: return stats
ReturnStats ==
    /\ pc = "loop"
    /\ new_files = {}
    /\ result' = stats
    /\ pc' = "done"
    /\ UNCHANGED << backup_dir, existing, temp_dir, new_files, stats, returncode,
                    run, before, written, last >>
    /\ UNCHANGED notU

\* The owner runs the tool again on the archive the last run left.
RunAgain ==
    /\ pc = "done"
    /\ run < MaxRuns
    /\ run' = run + 1
    /\ pc' = "index"
    /\ existing' = EmptyIndex
    /\ stats' = None
    /\ result' = None
    /\ returncode' = -1
    /\ before' = backup_dir
    /\ written' = {}
    /\ last' = NoWrite
    /\ UNCHANGED << backup_dir, temp_dir, new_files >>
    /\ UNCHANGED notU

UNext ==
    \/ GetExisting
    \/ RunExtraction
    \/ ProcessNewFile
    \/ ReturnStats
    \/ RunAgain

Spec == UInit /\ [][UNext]_vars

(***************************************************************************)
(* update-extracts.py: the claims                                          *)
(***************************************************************************)
IsMarker(t) == t = USER_NOTES_START \/ t = USER_NOTES_END

\* The User Notes Blocks of a content: each run from a start marker through
\* the next end marker with no marker between them.
Blocks(c) ==
    { SubSeq(c, p[1], p[2]) :
        p \in { q \in (1..Len(c)) \X (1..Len(c)) :
                  /\ q[1] < q[2]
                  /\ c[q[1]] = USER_NOTES_START
                  /\ c[q[2]] = USER_NOTES_END
                  /\ \A i \in (q[1] + 1)..(q[2] - 1) : ~IsMarker(c[i]) } }

\* C1: a file update_extracts overwrites (counts as updated) holds, right after
\* the write, every User Notes Block it held when the run started.
C1_NotesSurviveUpdate ==
    last.kind = "updated" =>
        \A b \in Blocks(before[last.name]) : Contains(last.content, b)

\* The id of a header line, in full.
FullId(c) ==
    IF \E i \in 1..Len(c) : c[i].k = "sid"
    THEN (CHOOSE t \in { c[i] : i \in 1..Len(c) } : t.k = "sid").v
    ELSE None

\* An archive entry as the data model has it: readable, a session id in its
\* header, and no marker but those of at most one User Notes Block.
IsEntry(c) ==
    /\ Readable(c)
    /\ Cardinality({ i \in 1..Len(c) : c[i].k = "sid" }) = 1
    /\ \/ \A i \in 1..Len(c) : ~IsMarker(c[i])
       \/ /\ Cardinality({ i \in 1..Len(c) : IsMarker(c[i]) }) = 2
          /\ Cardinality(Blocks(c)) = 1

\* An entry with its User Notes Block removed.
WithoutNotes(c) ==
    IF Blocks(c) = {} THEN c
    ELSE LET i == Find(c, USER_NOTES_START)
             j == Find(c, USER_NOTES_END)
         IN SubSeq(c, 1, i - 1) \o SubSeq(c, j + 1, Len(c))

\* The collaborator produced the archive's N entries again, unchanged.
SameTranscripts(archive, fresh) ==
    /\ \A f \in DOMAIN archive : IsEntry(archive[f])
    /\ \A f, g \in DOMAIN archive : FullId(archive[f]) = FullId(archive[g]) => f = g
    /\ Cardinality(DOMAIN fresh) = Cardinality(DOMAIN archive)
    /\ \A f \in DOMAIN archive : \E n \in DOMAIN fresh :
          /\ FullId(fresh[n]) = FullId(archive[f])
          /\ RStrip(fresh[n]) = RStrip(WithoutNotes(archive[f]))

\* C2: when the collaborator produces the archive's N entries unchanged, the run
\* ends with updated = 0, new = 0, unchanged = N, skipped = 0 and no file
\* written; and a second run given the first run's output writes nothing.
C2_UnchangedRunWritesNothing ==
    /\ (pc = "done" /\ run = 1 /\ SameTranscripts(before, temp_dir)) =>
          /\ result.updated = 0
          /\ result.new = 0
          /\ result.unchanged = Cardinality(DOMAIN before)
          /\ result.skipped = 0
          /\ written = {}
    /\ run > 1 => written = {}

\* C5: once the collaborator has exited non-zero, update_extracts has returned
\* the error, no fresh file was listed or examined, no counter exists, and the
\* archive is what it was when the run started.
C5_FailureLeavesArchive ==
    returncode > 0 =>
        /\ pc = "failed"
        /\ result = ErrorResult
        /\ stats = None
        /\ new_files = {}
        /\ written = {}
        /\ last = NoWrite
        /\ backup_dir = before

\* A run over a non-empty archive whose collaborator failed.
C5_Witness ==
    /\ pc = "failed"
    /\ returncode > 0
    /\ DOMAIN backup_dir # {}
    /\ existing # EmptyIndex

\* The archive file the index holds for some fresh transcript's session id.
IsIndexedEntryOfFresh(f) ==
    \E n \in DOMAIN temp_dir :
        LET session_id == SessionIdOf(n, temp_dir[n])
        IN /\ session_id # None
           /\ session_id \in DOMAIN existing
           /\ existing[session_id].path = f

\* C8: after a run, every archive file that existed before it and is not the
\* indexed entry of a fresh transcript's session id has its original content.
C8_NewNeverDestroys ==
    pc = "done" =>
        \A f \in DOMAIN before :
            ~IsIndexedEntryOfFresh(f) =>
                f \in DOMAIN backup_dir /\ backup_dir[f] = before[f]

\* The truncated session id an archive file is known by (None: by none).
ArchiveId(dir, f) == IF Readable(dir[f]) THEN SessionIdOf(f, dir[f]) ELSE None

UniqueIds(dir) ==
    \A f, g \in DOMAIN dir :
        (ArchiveId(dir, f) # None /\ ArchiveId(dir, f) = ArchiveId(dir, g)) => f = g

\* C9: if no two archive files share a truncated session id before a run, none
\* do after it.
C9_IdentityStaysUnique ==
    (pc = "done" /\ UniqueIds(before)) => UniqueIds(backup_dir)

(***************************************************************************)
(* rename-extracts.py: text of a transcript                                *)
(* A transcript is a sequence of lines, each a token:                      *)
(*   sid            "Session ID: <v>"                                      *)
(*   date           "Date: <v>", v a YYYY-MM-DD text                       *)
(*   stamp          a line of a message that holds the YYYY-MM-DD text v   *)
(*   wd_projects    "Working directory: C:\Users\u\Projects\<v>"           *)
(*   wd_downloads   "Working directory: C:\Users\u\Downloads\<v>"          *)
(*   path_projects  "C:\Users\u\Projects\<v>" followed by a space          *)
(*   user, human    the heading "## User" / "## Human" and, in v, the line *)
(*                  of the message under it                                *)
(*   txt            the text v                                             *)
(*   pad            a stretch of other text as long as the window          *)
(*                  is_agent_session reads                                 *)
(*   ws             an empty line                                          *)
(*   rule           a line "---"                                           *)
(*   fm_*           the lines create_frontmatter writes                    *)
(***************************************************************************)
Rule == Tok("rule", <<>>)

AgentWindow == 500

\* The characters of a line before its v, and after it (the line break, and a
\* closing quote where the line has one).
WidthBefore(t) ==
    CASE t.k = "sid" -> 12
      [] t.k = "date" -> 6
      [] t.k = "wd_projects" -> 39
      [] t.k = "wd_downloads" -> 40
      [] t.k = "path_projects" -> 20
      [] t.k = "user" -> 10
      [] t.k = "human" -> 9
      [] t.k = "pad" -> AgentWindow
      [] t.k = "rule" -> 3
      [] t.k = "fm_session_id" -> 12
      [] t.k = "fm_title" -> 8
      [] t.k = "fm_start_date" -> 12
      [] t.k = "fm_end_date" -> 10
      [] t.k = "fm_project" -> 10
      [] t.k = "fm_conversation_type" -> 20
      [] t.k = "fm_fixed" -> 206
      [] OTHER -> 0

Width(t) ==
    WidthBefore(t) + Len(t.v)
        + (IF t.k \in {"fm_title", "fm_project", "fm_conversation_type"} THEN 2 ELSE 1)

\* The offset of line i in the content.
RECURSIVE Offset(_, _)
Offset(content, i) == IF i <= 1 THEN 0 ELSE Offset(content, i - 1) + Width(content[i - 1])

\* The first line of one of the kinds, 0 when there is none.
FirstOf(content, kinds) ==
    IF \E i \in 1..Len(content) : content[i].k \in kinds
    THEN CHOOSE i \in 1..Len(content) :
             /\ content[i].k \in kinds
             /\ \A j \in 1..(i - 1) : content[j].k \notin kinds
    ELSE 0

(***************************************************************************)
(* rename-extracts.py: dates                                               *)
(***************************************************************************)
RECURSIVE Num(_)
\* int() of a run of digits.
Num(s) == IF s = <<>> THEN 0 ELSE 10 * Num(SubSeq(s, 1, Len(s) - 1)) + (IndexIn(Digits, s[Len(s)]) - 1)

\* A datetime at midnight: [y, m, d].  NoDate is Python's None.
NoDate == [y |-> 0, m |-> 0, d |-> 0]

IsLeap(y) == (y % 4 = 0 /\ y % 100 # 0) \/ y % 400 = 0

DaysInMonth(y, m) ==
    IF m = 2 THEN (IF IsLeap(y) THEN 29 ELSE 28)
    ELSE IF m \in {4, 6, 9, 11} THEN 30 ELSE 31

\* Whether datetime(y, m, d) is a date (it raises ValueError otherwise).
IsDate(dt) ==
    /\ dt.y >= 1 /\ dt.y <= 9999
    /\ dt.m >= 1 /\ dt.m <= 12
    /\ dt.d >= 1 /\ dt.d <= DaysInMonth(dt.y, dt.m)

\* The three groups of (\d{4})-(\d{2})-(\d{2}) as integers.
ParseDate(text) ==
    [y |-> Num(SubSeq(text, 1, 4)), m |-> Num(SubSeq(text, 6, 7)), d |-> Num(SubSeq(text, 9, 10))]

\* datetime's order.
Before(a, b) ==
    \/ a.y < b.y
    \/ a.y = b.y /\ a.m < b.m
    \/ a.y = b.y /\ a.m = b.m /\ a.d < b.d

\* n in decimal, w digits wide.
RECURSIVE Pad(_, _)
Pad(n, w) == IF w = 0 THEN <<>> ELSE Pad(n \div 10, w - 1) \o << Digits[(n % 10) + 1] >>

\* strftime('%Y-%m-%d') and strftime('%m-%d-%Y')
FormatYMD(dt) == Pad(dt.y, 4) \o << "-" >> \o Pad(dt.m, 2) \o << "-" >> \o Pad(dt.d, 2)
FormatMDY(dt) == Pad(dt.m, 2) \o << "-" >> \o Pad(dt.d, 2) \o << "-" >> \o Pad(dt.y, 4)

(***************************************************************************)
(* rename-extracts.py: metadata extraction                                 *)
(***************************************************************************)
\* re.search(r'Session ID:\s*([a-f0-9-]+)'): the id of the first header line.
extract_session_id(content) ==
    LET i == FirstOf(content, {"sid"})
    IN IF i = 0 THEN None ELSE content[i].v

\* Whether the header holds a "Date:" line.
HasStartDate(content) == FirstOf(content, {"date"}) # 0

\* extract_start_date raises ValueError: strptime on a text that is no date.
StartDateRaises(content) ==
    HasStartDate(content) /\ ~IsDate(ParseDate(content[FirstOf(content, {"date"})].v))

extract_start_date(content) ==
    IF HasStartDate(content)
    THEN ParseDate(content[FirstOf(content, {"date"})].v)
    ELSE NoDate

\* The lines that hold a YYYY-MM-DD text.
DateKinds == {"date", "stamp", "fm_start_date", "fm_end_date"}

MinYear == 2020
MaxYear == 2030

\* The sanity check of extract_latest_date on a date's year.
YearIsSane(dt) == MinYear <= dt.y /\ dt.y <= MaxYear

\* The list `dates` of extract_latest_date after line i.
RECURSIVE DatesUpTo(_, _)
DatesUpTo(content, i) ==
    IF i = 0 THEN <<>>
    ELSE LET rest == DatesUpTo(content, i - 1)
             t == content[i]
         IN IF t.k \in DateKinds /\ IsDate(ParseDate(t.v)) /\ YearIsSane(ParseDate(t.v))
            THEN Append(rest, ParseDate(t.v))
            ELSE rest

\* max(dates)
RECURSIVE MaxDate(_)
MaxDate(dates) ==
    IF Len(dates) = 1 THEN dates[1]
    ELSE LET m == MaxDate(Tail(dates))
         IN IF Before(dates[1], m) THEN m ELSE dates[1]

extract_latest_date(content) ==
    LET dates == DatesUpTo(content, Len(content))
    IN IF dates # <<>> THEN MaxDate(dates) ELSE NoDate

\* An end date taken as extract_latest_date found it.
EndDateUnchecked(start_date, latest) ==
    IF latest = NoDate THEN start_date ELSE latest

\* Lines 226-227: the end date process_file uses.
EndDate(start_date, latest) ==
    IF latest = NoDate \/ Before(latest, start_date) THEN start_date ELSE latest

MinProject == 2
MaxProject == 50

\* The three patterns of extract_project_name, in their order, each as the
\* kinds of line it matches (the third matches the path of a "Working
\* directory:" line too).
ProjectPatterns == << {"wd_projects"}, {"wd_downloads"}, {"wd_projects", "path_projects"} >>

ProjectIsValid(project) ==
    Len(project) > MinProject /\ Len(project) < MaxProject /\ project[1] # "-"

RECURSIVE ProjectFrom(_, _)
ProjectFrom(content, p) ==
    IF p > Len(ProjectPatterns) THEN None
    ELSE LET i == FirstOf(content, ProjectPatterns[p])
         IN IF i # 0 /\ ProjectIsValid(content[i].v) THEN content[i].v
            ELSE ProjectFrom(content, p + 1)

extract_project_name(content) == ProjectFrom(content, 1)

\* The text of a line that a search of the content can match in.
Searchable(t) ==
    t.k \in {"sid", "txt", "user", "human", "wd_projects", "wd_downloads",
             "path_projects", "fm_session_id", "fm_title", "fm_project",
             "fm_conversation_type"}

\* 'subagent' in content.lower()[:500]
SubagentInHead(content) ==
    \E i \in 1..Len(content) :
        /\ Searchable(content[i])
        /\ LET lowered == Lower(content[i].v)
               word == << "s", "u", "b", "a", "g", "e", "n", "t" >>
           IN \E p \in 1..Len(lowered) :
                 /\ OccursAt(lowered, word, p)
                 /\ Offset(content, i) + WidthBefore(content[i]) + (p - 1) + Len(word)
                        <= AgentWindow

is_agent_session(content, filename) ==
    \/ Contains(Lower(filename), << "a", "g", "e", "n", "t", "-" >>)
    \/ SubagentInHead(content)

\* str.strip() of a line: the blanks at its ends dropped.
RECURSIVE StripBlanks(_)
StripBlanks(s) ==
    IF s = <<>> THEN s
    ELSE IF s[1] = " " THEN StripBlanks(Tail(s))
    ELSE IF s[Len(s)] = " " THEN StripBlanks(SubSeq(s, 1, Len(s) - 1))
    ELSE s

MaxFirstMsg == 200
MaxAgentProject == 30
MinCleanName == 2

\* The topic rules of generate_description, in their order: a rule matches a
\* message that holds one word of each of its sets.
TopicRules ==
    << [need |-> { {<< "e", "x", "c", "e", "l" >>}, {<< "g", "o", "o", "g", "l", "e" >>, << "s", "h", "e", "e", "t" >>} }, topic |-> << "e", "x", "c", "e", "l", "-", "t", "o", "-", "s", "h", "e", "e", "t", "s", "-", "m", "i", "g", "r", "a", "t", "i", "o", "n" >>],
       [need |-> { {<< "m", "i", "t", "e", "l" >>} }, topic |-> << "m", "i", "t", "e", "l", "-", "s", "k", "i", "l", "l", "-", "d", "e", "v", "e", "l", "o", "p", "m", "e", "n", "t" >>],
       [need |-> { {<< "r", "e", "a", "d" >>}, {<< "a", "i" >>} }, topic |-> << "r", "e", "a", "d", "-", "a", "i", "-", "c", "l", "o", "n", "e" >>],
       [need |-> { {<< "m", "i", "l", "e", "s", "t", "o", "n", "e" >>, << "p", "o", "w", "e", "r", "s", "h", "e", "l", "l" >>} }, topic |-> << "m", "i", "l", "e", "s", "t", "o", "n", "e", "-", "p", "o", "w", "e", "r", "s", "h", "e", "l", "l" >>],
       [need |-> { {<< "p", "l", "u", "g", "i", "n" >>} }, topic |-> << "p", "l", "u", "g", "i", "n", "-", "d", "e", "v", "e", "l", "o", "p", "m", "e", "n", "t" >>],
       [need |-> { {<< "t", "e", "s", "t" >>} }, topic |-> << "t", "e", "s", "t", "i", "n", "g" >>],
       [need |-> { {<< "b", "u", "g" >>, << "f", "i", "x" >>} }, topic |-> << "b", "u", "g", "f", "i", "x" >>],
       [need |-> { {<< "f", "e", "a", "t", "u", "r", "e" >>} }, topic |-> << "f", "e", "a", "t", "u", "r", "e", "-", "d", "e", "v", "e", "l", "o", "p", "m", "e", "n", "t" >>],
       [need |-> { {<< "e", "x", "t", "r", "a", "c", "t" >>}, {<< "c", "o", "n", "v", "e", "r", "s", "a", "t", "i", "o", "n" >>} }, topic |-> << "c", "o", "n", "v", "e", "r", "s", "a", "t", "i", "o", "n", "-", "e", "x", "t", "r", "a", "c", "t", "i", "o", "n" >>] >>

RuleMatches(rule, msg) == \A words \in rule.need : \E w \in words : Contains(msg, w)

\* The topic of the first rule that matches, None when none does.
TopicOf(msg) ==
    IF \E r \in 1..Len(TopicRules) : RuleMatches(TopicRules[r], msg)
    THEN TopicRules[CHOOSE r \in 1..Len(TopicRules) :
                        /\ RuleMatches(TopicRules[r], msg)
                        /\ \A q \in 1..(r - 1) : ~RuleMatches(TopicRules[q], msg)].topic
    ELSE None

\* The grave accent, which a string of this module cannot hold.
Backtick == "grave"

\* Lines 115-125: the first message, "" when there is none or it looks like
\* system content.
FirstMessage(content) ==
    LET u == FirstOf(content, {"user"})
        i == IF u # 0 THEN u ELSE FirstOf(content, {"human"})
        first_msg == IF i = 0 THEN <<>> ELSE Take(StripBlanks(content[i].v), MaxFirstMsg)
    IN IF first_msg = <<>> THEN <<>>
       ELSE IF first_msg[1] = Backtick \/ first_msg[1] = "{" \/ Contains(first_msg, << "C", "a", "v", "e", "a", "t", ":" >>)
       THEN <<>>
       ELSE first_msg

generate_description(content, project_name, filename) ==
    IF is_agent_session(content, filename)
    THEN IF project_name # None /\ Len(project_name) < MaxAgentProject
         THEN LET clean_name == sanitize_description(project_name)
              IN IF clean_name # <<>> /\ Len(clean_name) > MinCleanName
                 THEN clean_name \o << "-", "s", "u", "b", "a", "g", "e", "n", "t" >>
                 ELSE << "s", "u", "b", "a", "g", "e", "n", "t" >>
         ELSE << "s", "u", "b", "a", "g", "e", "n", "t" >>
    ELSE LET first_msg == FirstMessage(content)
             topic == IF first_msg = <<>> THEN None ELSE TopicOf(Lower(first_msg))
         IN IF topic # None THEN topic
            ELSE IF project_name # None THEN sanitize_description(project_name)
            ELSE Conversation

\* description.replace('-', ' ').title(): a letter is upper case after a
\* character that is no letter, lower case after a letter.
Title(description) ==
    LET spaced == [i \in 1..Len(description) |->
                       IF description[i] = "-" THEN " " ELSE description[i]]
        IsLetter(c) == IsLower(c) \/ IsUpper(c)
    IN [i \in 1..Len(spaced) |->
           IF i > 1 /\ IsLetter(spaced[i - 1]) THEN ToLower(spaced[i]) ELSE ToUpper(spaced[i])]

(***************************************************************************)
(* rename-extracts.py: frontmatter                                         *)
(***************************************************************************)
create_frontmatter(session_id, start_date, end_date, title, project, is_subagent) ==
    << Rule,
       Tok("fm_session_id", session_id),
       Tok("fm_title", title),
       Tok("fm_start_date", FormatYMD(start_date)),
       Tok("fm_end_date", FormatYMD(end_date)) >>
    \o (IF project # None THEN << Tok("fm_project", project) >> ELSE <<>>)
    \o << Tok("fm_conversation_type", IF is_subagent THEN << "s", "u", "b", "a", "g", "e", "n", "t" >> ELSE Conversation),
          Tok("fm_fixed", <<>>),
          Rule >>

\* str.lstrip() of a content: the empty lines at its start dropped.
RECURSIVE LStrip(_)
LStrip(s) == IF s # <<>> /\ s[1] = NL THEN LStrip(Tail(s)) ELSE s

\* The line "---" that closes a block opened by a first line "---" (0: none).
ClosingRule(content) ==
    IF \E j \in 2..Len(content) : content[j] = Rule
    THEN CHOOSE j \in 2..Len(content) :
             content[j] = Rule /\ \A i \in 2..(j - 1) : content[i] # Rule
    ELSE 0

add_frontmatter_to_content(content, frontmatter) ==
    IF content # <<>> /\ content[1] = Rule /\ ClosingRule(content) # 0
    THEN frontmatter \o LStrip(Drop(content, ClosingRule(content)))
    ELSE frontmatter \o content

(***************************************************************************)
(* rename-extracts.py: file names                                          *)
(***************************************************************************)
DotMd == << ".", "m", "d" >>

\* Line 242: MM-DD-YYYY--MM-DD-YYYY-description
Stem(start_date, end_date, description) ==
    FormatMDY(start_date) \o << "-", "-" >> \o FormatMDY(end_date) \o << "-" >> \o description

\* n in decimal.
RECURSIVE Decimal(_)
Decimal(n) == IF n < 10 THEN << Digits[n + 1] >> ELSE Decimal(n \div 10) \o << Digits[(n % 10) + 1] >>

\* Lines 242 and 248: the name tried first (counter 0) and after a collision.
NameFor(stem, counter) ==
    IF counter = 0 THEN stem \o DotMd ELSE stem \o << "-" >> \o Decimal(counter) \o DotMd

\* A test that forgets the file being processed may hold the name.
TakenEvenByItself(names, path, filepath) == path \in names

\* A test that never sees a collision.
TakenNever(names, path, filepath) == FALSE

\* Line 247: whether the path is taken by another file.
Taken(names, path, filepath) == path \in names /\ path # filepath

\* Lines 246-250: the loop, from the counter it would try next.
RECURSIVE Resolve(_, _, _, _)
Resolve(names, stem, filepath, counter) ==
    IF Taken(names, NameFor(stem, counter), filepath)
    THEN Resolve(names, stem, filepath, counter + 1)
    ELSE NameFor(stem, counter)

\* The code points' order, for the characters of a file name.
CharOrder == << "-", "." >> \o Digits \o Uppers \o << "_" >> \o Lowers

\* Python's order of two strings.
RECURSIVE StrLess(_, _)
StrLess(a, b) ==
    IF b = <<>> THEN FALSE
    ELSE IF a = <<>> THEN TRUE
    ELSE IF a[1] = b[1] THEN StrLess(Tail(a), Tail(b))
    ELSE IndexIn(CharOrder, a[1]) < IndexIn(CharOrder, b[1])

\* sorted(files)
Sorted(S) ==
    CHOOSE o \in Orders(S) : \A i \in 1..(Cardinality(S) - 1) : StrLess(o[i], o[i + 1])

(***************************************************************************)
(* rename-extracts.py: process_file and main                               *)
(***************************************************************************)
\* Lines 214-259 of process_file for a file it does not skip: what it derives
\* from the content, given the names in the directory.
Derive(filepath, content, names) ==
    LET session_id == extract_session_id(content)
        start_date == extract_start_date(content)
        end_date == EndDate(start_date, extract_latest_date(content))
        project_name == extract_project_name(content)
        description == generate_description(content, project_name, filepath)
        title == Title(description)
        is_subagent == is_agent_session(content, filepath)
        frontmatter == create_frontmatter(session_id, start_date, end_date, title,
                                          project_name, is_subagent)
        new_name == Resolve(names, Stem(start_date, end_date, description), filepath, 0)
    IN [ result |-> [ old_name |-> filepath,
                      new_name |-> new_name,
                      session_id |-> session_id,
                      start_date |-> FormatYMD(start_date),
                      end_date |-> FormatYMD(end_date),
                      description |-> description ],
         frontmatter |-> frontmatter,
         new_content |-> add_frontmatter_to_content(content, frontmatter) ]

\* Lines 300, 305: files = list(glob("*.md")), then sorted(files)
ListFiles ==
    /\ rpc = "list"
    /\ files' = Sorted(DOMAIN directory)
    /\ idx' = 1
    /\ rpc' = "loop"
    /\ UNCHANGED << directory, results, dry_run, rrun, rbefore, pending, call >>
    /\ UNCHANGED notR

\* Lines 208-224: process_file returns None without touching the file.
Skips(content) ==
    \/ ~Readable(content)
    \/ extract_session_id(content) = None
    \/ ~HasStartDate(content)

\* Lines 206-270 for the next file of the list: process_file up to its write.
ProcessFile ==
    /\ rpc = "loop"
    /\ idx <= Len(files)
    /\ LET filepath == files[idx]
           content == directory[filepath]
       IN IF Readable(content) /\ extract_session_id(content) # None
               /\ StartDateRaises(content)
          THEN \* line 219: strptime raises, and main dies with it
               /\ rpc' = "crashed"
               /\ UNCHANGED << directory, idx, results, pending, call >>
          ELSE IF Skips(content)
          THEN /\ idx' = idx + 1
               /\ UNCHANGED << directory, results, rpc, pending, call >>
          ELSE LET d == Derive(filepath, content, DOMAIN directory)
                   new_path == d.result.new_name
               IN /\ call' = [ filepath |-> filepath, content |-> content,
                               names |-> DOMAIN directory, result |-> d.result,
                               frontmatter |-> d.frontmatter, wrote |-> ~dry_run ]
                  /\ IF dry_run
                     THEN /\ results' = Append(results, d.result)
                          /\ idx' = idx + 1
                          /\ UNCHANGED << directory, rpc, pending >>
                     ELSE /\ directory' = (new_path :> d.new_content) @@ directory
                          /\ IF new_path # filepath
                             THEN /\ rpc' = "unlink"
                                  /\ pending' = d.result
                                  /\ UNCHANGED << results, idx >>
                             ELSE /\ results' = Append(results, d.result)
                                  /\ idx' = idx + 1
                                  /\ UNCHANGED << rpc, pending >>
    /\ UNCHANGED << files, dry_run, rrun, rbefore >>
    /\ UNCHANGED notR

\* Lines 273-279: filepath.unlink(), and process_file returns its record.
Unlink ==
    /\ rpc = "unlink"
    /\ directory' = [f \in DOMAIN directory \ { pending.old_name } |-> directory[f]]
    /\ results' = Append(results, pending)
    /\ pending' = NoPending
    /\ idx' = idx + 1
    /\ rpc' = "loop"
    /\ UNCHANGED << files, dry_run, rrun, rbefore, call >>
    /\ UNCHANGED notR

\* Lines 311-314: the summary, after the last file.
Summary ==
    /\ rpc = "loop"
    /\ idx > Len(files)
    /\ rpc' = "done"
    /\ UNCHANGED << directory, files, idx, results, dry_run, rrun, rbefore, pending, call >>
    /\ UNCHANGED notR

\* The owner runs the renamer again on the directory a run that wrote left.
RenameAgain ==
    /\ rpc = "done"
    /\ ~dry_run
    /\ rrun < MaxRuns
    /\ rrun' = rrun + 1
    /\ rpc' = "list"
    /\ files' = <<>>
    /\ idx' = 0
    /\ results' = <<>>
    /\ rbefore' = directory
    /\ call' = NoCall
    /\ UNCHANGED << directory, dry_run, pending >>
    /\ UNCHANGED notR

RNext ==
    \/ ListFiles
    \/ ProcessFile
    \/ Unlink
    \/ Summary
    \/ RenameAgain

(***************************************************************************)
(* rename-extracts.py: the directories explored                            *)
(***************************************************************************)
Sid1 == << "a", "1" >>
Sid2 == << "b", "2" >>
Sid3 == << "c", "3" >>

Day1 == << "2", "0", "2", "4", "-", "0", "1", "-", "0", "1" >>

Header(sid) == << Tok("sid", sid), Tok("date", Day1) >>

\* A session whose first message asks to run tests: the topic "testing".
Testing(sid) == Header(sid) \o << Tok("user", << "r", "u", "n", " ", "t", "h", "e", " ", "t", "e", "s", "t", "s" >>) >>
\* A session in the project my-agent, with no message a topic rule matches.
InMyAgent(sid) == Header(sid) \o << Tok("human", << "h", "e", "l", "l", "o" >>), Tok("wd_projects", << "m", "y", "-", "a", "g", "e", "n", "t" >>) >>
\* A session in the project Subagent_X, named past the window of is_agent_session.
InSubagentX(sid) == Header(sid) \o << Tok("pad", <<>>), Tok("wd_downloads", << "S", "u", "b", "a", "g", "e", "n", "t", "_", "X" >>) >>
\* A session that says "subagent" in its first lines.
SaysSubagent(sid) == Header(sid) \o << Tok("txt", << "a", " ", "s", "u", "b", "a", "g", "e", "n", "t", " ", "r", "a", "n" >>), Tok("path_projects", << "a", "p", "p" >>) >>
\* A file that starts with a block between two "---" lines and an empty line.
WithRule(sid) == << Rule, Tok("txt", << "n", "o", "t", "e" >>), Rule, NL >> \o Header(sid) \o << Tok("user", << "{", "x", "}" >>) >>

NoSessionId == << Tok("date", Day1), Tok("user", << "f", "i", "x", " ", "t", "h", "e", " ", "b", "u", "g" >>) >>
NoStartDate == << Tok("sid", Sid3), Tok("stamp", Day1) >>
BadStartDate == << Tok("sid", Sid3), Tok("date", << "2", "0", "2", "4", "-", "0", "2", "-", "3", "0" >>) >>

FileA == << "a", ".", "m", "d" >>
FileB == << "b", ".", "m", "d" >>
FileAgent == << "a", "g", "e", "n", "t", "-", "9", ".", "m", "d" >>
FileTesting == << "0", "1", "-", "0", "1", "-", "2", "0", "2", "4", "-", "-", "0", "1", "-", "0", "1", "-", "2", "0", "2", "4", "-", "t", "e", "s", "t", "i", "n", "g", ".", "m", "d" >>

\* What a file of each name may hold.
ContentsOf(name) ==
    CASE name = FileA ->
             { Testing(Sid1), InMyAgent(Sid1), InSubagentX(Sid1), SaysSubagent(Sid1),
               WithRule(Sid1), NoStartDate, BadStartDate }
      [] name = FileB -> { Testing(Sid2), InMyAgent(Sid2), NoSessionId, << Bin >> }
      [] name = FileAgent -> { Testing(Sid3), NoStartDate }
      [] name = FileTesting -> { Testing(Sid3), InMyAgent(Sid3) }

FileNames == { FileA, FileB, FileAgent, FileTesting }

Directories ==
    { [n \in S |-> CASE n = FileA -> a [] n = FileB -> b [] n = FileAgent -> c
                      [] n = FileTesting -> t] :
        a \in ContentsOf(FileA), b \in ContentsOf(FileB), c \in ContentsOf(FileAgent),
        t \in ContentsOf(FileTesting), S \in SUBSET FileNames }

\* Transcripts that differ in their dates alone: a header date and up to
\* MaxStamps dates in the messages.
MaxStamps == 2

HeaderDates == { Day1, << "2", "0", "1", "9", "-", "0", "5", "-", "0", "5" >>, << "2", "0", "2", "4", "-", "0", "2", "-", "2", "9" >>, << "2", "0", "3", "1", "-", "0", "3", "-", "0", "1" >> }
StampDates == { << "2", "0", "2", "4", "-", "0", "1", "-", "0", "2" >>, << "2", "0", "2", "3", "-", "1", "2", "-", "3", "1" >>, << "2", "0", "3", "1", "-", "0", "1", "-", "0", "1" >>, << "2", "0", "2", "4", "-", "1", "3", "-", "0", "1" >>, << "2", "0", "2", "0", "-", "0", "6", "-", "3", "0" >> }

Stamps == UNION { [1..n -> StampDates] : n \in 0..MaxStamps }

DatedContents ==
    { << Tok("sid", Sid1), Tok("date", h) >> \o [i \in 1..Len(s) |-> Tok("stamp", s[i])] :
        h \in HeaderDates, s \in Stamps }

DatedDirectories == { (FileA :> c) : c \in DatedContents }

RInit ==
    /\ UIdle
    /\ SIdle
    /\ directory \in Directories \cup DatedDirectories
    /\ dry_run \in BOOLEAN
    /\ files = <<>>
    /\ idx = 0
    /\ results = <<>>
    /\ rpc = "list"
    /\ rrun = 1
    /\ rbefore = directory
    /\ pending = NoPending
    /\ call = NoCall

RenameSpec == RInit /\ [][RNext]_vars

(***************************************************************************)
(* rename-extracts.py: the claims                                          *)
(***************************************************************************)
\* The names of the records main has collected.
ResultNames == { results[i].new_name : i \in 1..Len(results) }

\* C3: a second run that writes, over the directory a first run that wrote
\* left, picks for every file it processes the name the file has, and writes
\* the frontmatter block the file starts with.
C3_RenamerIsIdempotent ==
    (rrun > 1 /\ call # NoCall) =>
        /\ call.result.new_name = call.filepath
        /\ Take(call.content, Len(call.frontmatter)) = call.frontmatter

\* The name MM-DD-YYYY--MM-DD-YYYY-description.md of a record, and the name
\* with the suffix -k.
BaseOf(r) ==
    FormatMDY(ParseDate(r.start_date)) \o << "-", "-" >> \o FormatMDY(ParseDate(r.end_date))
        \o << "-" >> \o r.description

Suffixed(r, k) == BaseOf(r) \o << "-" >> \o Decimal(k) \o << ".", "m", "d" >>

\* A name process_file may write to: no file has it, or the file it processes.
FreeFor(c, name) == name \notin c.names \/ name = c.filepath

\* C4: process_file chooses the target name when it is free or the file's own,
\* and otherwise the name with the smallest suffix k >= 1 that is; the files a
\* run that writes has processed have pairwise distinct names, all of them in
\* the directory.
C4_CollisionPolicy ==
    /\ call # NoCall =>
          LET r == call.result
          IN IF FreeFor(call, BaseOf(r) \o << ".", "m", "d" >>)
             THEN r.new_name = BaseOf(r) \o << ".", "m", "d" >>
             ELSE \E k \in 1..Cardinality(call.names) :
                     /\ r.new_name = Suffixed(r, k)
                     /\ FreeFor(call, Suffixed(r, k))
                     /\ \A j \in 1..(k - 1) : ~FreeFor(call, Suffixed(r, j))
    /\ ~dry_run =>
          /\ \A i, j \in 1..Len(results) :
                i # j => results[i].new_name # results[j].new_name
          /\ ResultNames \subseteq DOMAIN directory

\* A run has written three sessions of one date range and description: to the
\* name, the name-1 and the name-2.
C4_Witness ==
    /\ rpc = "done"
    /\ ~dry_run
    /\ rrun = 1
    /\ { FileTesting, << "0", "1", "-", "0", "1", "-", "2", "0", "2", "4", "-", "-", "0", "1", "-", "0", "1", "-", "2", "0", "2", "4", "-", "t", "e", "s", "t", "i", "n", "g", "-", "1", ".", "m", "d" >>,
         << "0", "1", "-", "0", "1", "-", "2", "0", "2", "4", "-", "-", "0", "1", "-", "0", "1", "-", "2", "0", "2", "4", "-", "t", "e", "s", "t", "i", "n", "g", "-", "2", ".", "m", "d" >> } \subseteq ResultNames
    /\ call.result.new_name = << "0", "1", "-", "0", "1", "-", "2", "0", "2", "4", "-", "-", "0", "1", "-", "0", "1", "-", "2", "0", "2", "4", "-", "t", "e", "s", "t", "i", "n", "g", "-", "2", ".", "m", "d" >>

\* The dates of years MinYear..MaxYear in a content.
DatesFound(content) ==
    { ParseDate(content[i].v) :
        i \in { j \in 1..Len(content) :
                  /\ content[j].k \in DateKinds
                  /\ IsDate(ParseDate(content[j].v))
                  /\ ParseDate(content[j].v).y \in MinYear..MaxYear } }

Latest(S) == CHOOSE d \in S : \A e \in S : ~Before(d, e)

StartOf(content) == ParseDate(content[FirstOf(content, {"date"})].v)

\* The end date the claim gives a transcript.
EndOf(content) ==
    LET found == DatesFound(content)
    IN IF found # {} /\ ~Before(Latest(found), StartOf(content))
       THEN Latest(found)
       ELSE StartOf(content)

\* C7: the end date of the record, of the frontmatter and of the file name is
\* the latest date of 2020..2030 in the content when that is no earlier than
\* the start date, the start date otherwise; it is never before the start date.
C7_EndNotBeforeStart ==
    call # NoCall =>
        LET r == call.result
            start == StartOf(call.content)
            end == EndOf(call.content)
        IN /\ r.start_date = FormatYMD(start)
           /\ r.end_date = FormatYMD(end)
           /\ ~Before(ParseDate(r.end_date), ParseDate(r.start_date))
           /\ \E i \in 1..Len(call.frontmatter) :
                 call.frontmatter[i] = Tok("fm_end_date", FormatYMD(end))
           /\ Take(r.new_name, 23) = FormatMDY(start) \o << "-", "-" >> \o FormatMDY(end) \o << "-" >>

\* process_file has written a transcript whose dates of 2020..2030 are all
\* before its start date.
C7_Witness ==
    /\ call # NoCall
    /\ call.wrote
    /\ DatesFound(call.content) # {}
    /\ Before(Latest(DatesFound(call.content)), StartOf(call.content))
    /\ call.result.end_date = call.result.start_date

\* The transcript of a file: its lines from the header on (all of them when
\* it has no header).
Transcript(content) ==
    LET i == FirstOf(content, {"sid", "date"})
    IN IF i = 0 THEN content ELSE Drop(content, i - 1)

\* C10: in every state of a run that writes, every transcript the directory
\* held when the run started is held by a file, a file process_file skips is
\* as it was, process_file has written only to a name that was free or the
\* file's own, it unlinks only a file whose transcript the target holds under
\* another name, and the directory has as many files as at the start (one
\* more between a write and its unlink).
C10_NoTranscriptLost ==
    ~dry_run =>
        /\ \A f \in DOMAIN rbefore :
              \E g \in DOMAIN directory :
                  Transcript(directory[g]) = Transcript(rbefore[f])
        /\ \A f \in DOMAIN rbefore :
              Skips(rbefore[f]) => f \in DOMAIN directory /\ directory[f] = rbefore[f]
        /\ call.wrote => FreeFor(call, call.result.new_name)
        /\ rpc = "unlink" =>
              /\ pending.new_name # pending.old_name
              /\ pending.new_name \in DOMAIN directory
              /\ pending.old_name \in DOMAIN directory
              /\ Transcript(directory[pending.new_name])
                     = Transcript(directory[pending.old_name])
        /\ Cardinality(DOMAIN directory)
               = Cardinality(DOMAIN rbefore) + (IF rpc = "unlink" THEN 1 ELSE 0)

\* A run that writes has written a target and is about to unlink the
\* original, in a directory that holds a file it skips.
C10_Witness ==
    /\ ~dry_run
    /\ rpc = "unlink"
    /\ Len(results) >= 1
    /\ \E f \in DOMAIN rbefore : Skips(rbefore[f])

(***************************************************************************)
(* sanitize_description on its own: specification SanitizeSpec             *)
(***************************************************************************)
\* The longest text put before and after the run of letters of an input.
MaxEdge == 2

EdgeChars == { "a", "B", "-", "!" }

Edges == UNION { [1..n -> EdgeChars] : n \in 0..MaxEdge }

Letters(n) == [i \in 1..n |-> "a"]

\* The slug has not been computed.
Pending == << "?" >>

\* Inputs: up to MaxEdge characters, a run of up to MaxDescription letters, up
\* to MaxEdge characters.
SInit ==
    /\ UIdle
    /\ RIdle
    /\ \E pre \in Edges, n \in 0..MaxDescription, post \in Edges :
           desc = pre \o Letters(n) \o post
    /\ slug = Pending

Sanitize ==
    /\ slug = Pending
    /\ slug' = sanitize_description(desc)
    /\ UNCHANGED desc
    /\ UNCHANGED notS

SNext == Sanitize

SanitizeSpec == SInit /\ [][SNext]_vars

\* Nothing of the input survives the replacement, collapse and trim.
AllPunctuation(d) == \A i \in 1..Len(d) : ~IsSlugChar(ToLower(d[i])) \/ d[i] = "-"

\* C6: the slug of a non-empty input has only characters of [a-z0-9-], neither
\* starts nor ends with a hyphen and has at most 50 characters; the slug of an
\* empty or all-punctuation input is "conversation".
C6_SlugIsClean ==
    slug # Pending =>
        /\ \A i \in 1..Len(slug) : IsSlugChar(slug[i])
        /\ slug # <<>>
        /\ slug[1] # "-"
        /\ slug[Len(slug)] # "-"
        /\ Len(slug) <= MaxDescription
        /\ AllPunctuation(desc) => slug = Conversation

====
